---- MODULE Spec2Model ----
(***************************************************************************)
(* Heliostat webseed proxy (src/src/main.rs): the request pipeline of      *)
(* proxy_handler -- path sanitisation, the per-origin LRU cache, the       *)
(* upstream fetch, HTTP Range resolution and the per-origin statistics --  *)
(* as a state machine whose steps are the handler's critical sections and  *)
(* suspension points.                                                      *)
(*                                                                         *)
(* Strings are sequences of one-character strings, so that splitting,      *)
(* prefix tests and number parsing are computed character by character.    *)
(***************************************************************************)
EXTENDS Integers, Sequences, FiniteSets, TLC

(***************************************************************************)
(* Bounds of the model.                                                    *)
(***************************************************************************)
\* longest raw path enumerated for sanitize_path
MaxPathLen == 6

\* longest text after "bytes=" enumerated for the Range header
MaxRangeLen == 5

\* longest upstream body (bodies of every length 0..MaxBodyLen occur)
MaxBodyLen == 3

\* requests accepted in one behaviour of the concurrent specification
MaxRequests == 3

\* requests accepted in one behaviour of the cache specification
MaxCacheRequests == 4

\* requests accepted in one behaviour of the sequential specification
MaxSeqRequests == 2

\* requests accepted in SpecLive
MaxLiveRequests == 2

\* longest raw path requested in SpecKeys
MaxKeyPathLen == 4

(***************************************************************************)
(* Strings                                                                 *)
(***************************************************************************)
RECURSIVE SeqsUpTo(_, _)
\* all sequences over S of length at most n
SeqsUpTo(S, n) ==
    IF n = 0 THEN {<<>>}
    ELSE LET shorter == SeqsUpTo(S, n - 1)
         IN  shorter \cup {Append(s, x) : s \in {t \in shorter : Len(t) = n - 1}, x \in S}

\* index of the first occurrence of ch in s, 0 when there is none
IndexOf(s, ch) ==
    IF \E i \in 1..Len(s) : s[i] = ch
    THEN CHOOSE i \in 1..Len(s) : s[i] = ch /\ \A j \in 1..(i - 1) : s[j] # ch
    ELSE 0

RECURSIVE Split(_, _)
\* str::split(ch): the pieces between the separators, empty pieces included
Split(s, ch) ==
    LET i == IndexOf(s, ch)
    IN  IF i = 0 THEN <<s>>
        ELSE <<SubSeq(s, 1, i - 1)>> \o Split(SubSeq(s, i + 1, Len(s)), ch)

RECURSIVE Join(_, _)
\* [String]::join(sep)
Join(segs, sep) ==
    IF Len(segs) = 0 THEN <<>>
    ELSE IF Len(segs) = 1 THEN segs[1]
    ELSE segs[1] \o sep \o Join(Tail(segs), sep)

\* str::starts_with
StartsWith(s, prefix) ==
    /\ Len(s) >= Len(prefix)
    /\ SubSeq(s, 1, Len(prefix)) = prefix

(***************************************************************************)
(* Path Sanitizer                                                          *)
(***************************************************************************)
SLASH == <<"/">>

DOT == <<".">>

DOTDOT == <<".", ".">>

README == <<"R", "E", "A", "D", "M", "E", ".", "m", "d">>

\* the empty String that sanitize_path returns for an invalid path
INVALID == <<>>

RECURSIVE ParseComponents(_)
\* the components of the pieces of a path after its root: an empty piece and
\* a "." piece give no component, ".." gives ParentDir, anything else Normal
ParseComponents(segs) ==
    IF Len(segs) = 0 THEN <<>>
    ELSE LET seg == Head(segs)
             rest == ParseComponents(Tail(segs))
         IN  IF seg = <<>> \/ seg = DOT THEN rest
             ELSE IF seg = DOTDOT THEN <<[kind |-> "ParentDir", seg |-> seg]>> \o rest
             ELSE <<[kind |-> "Normal", seg |-> seg]>> \o rest

\* std::path::Path::new(raw).components() on a Unix target: a leading "/" is
\* RootDir, a leading "." piece of a rootless path is CurDir, repeated
\* separators, a trailing separator and every other "." piece are dropped
Components(raw) ==
    LET segs == Split(raw, "/")
        has_root == Len(raw) > 0 /\ raw[1] = "/"
        lead == IF has_root THEN <<[kind |-> "RootDir", seg |-> SLASH]>>
                ELSE IF Head(segs) = DOT THEN <<[kind |-> "CurDir", seg |-> DOT]>>
                ELSE <<>>
    IN  lead \o ParseComponents(segs)

\* the mutant of sanitize_path that forgets to reject ParentDir components
sanitize_path_keeps_parent(path) ==
    LET i == IndexOf(path, "/")
        comps == Components(SubSeq(path, i + 1, Len(path)))
        kept == SelectSeq(comps, LAMBDA c : c.kind \in {"Normal", "ParentDir"})
    IN  IF i = 0 \/ Len(kept) = 0 \/ Len(kept) # Len(comps) THEN INVALID
        ELSE Join([k \in 1..Len(kept) |-> kept[k].seg], SLASH)

\* the mutant of sanitize_path that keeps the first segment in the key
sanitize_path_keeps_prefix(path) ==
    LET comps == Components(path)
        valid == \A k \in 1..Len(comps) : comps[k].kind = "Normal"
        sanitized == [k \in 1..Len(comps) |-> comps[k].seg]
    IN  IF IndexOf(path, "/") = 0 \/ ~valid \/ Len(sanitized) < 2 THEN INVALID
        ELSE Join(sanitized, SLASH)

\* fn sanitize_path: drop everything up to the first "/", then accept the
\* rest only when every component is Normal and there is at least one
sanitize_path(path) ==
    LET i == IndexOf(path, "/")
    IN  IF i > 0
        THEN LET raw == SubSeq(path, i + 1, Len(path))
                 comps == Components(raw)
                 valid == \A k \in 1..Len(comps) : comps[k].kind = "Normal"
                 sanitized == [k \in 1..Len(comps) |-> comps[k].seg]
             IN  IF ~valid \/ Len(sanitized) = 0 THEN INVALID
                 ELSE Join(sanitized, SLASH)
        ELSE INVALID

(***************************************************************************)
(* Range Resolver                                                          *)
(***************************************************************************)
\* width of usize in the model; the machine word wraps modulo 2^UsizeBits
UsizeBits == 5

UsizeMax == 2 ^ UsizeBits - 1

Digits == {"0", "1", "2", "3", "4", "5", "6", "7", "8", "9"}

DigitVal(ch) ==
    CASE ch = "0" -> 0 [] ch = "1" -> 1 [] ch = "2" -> 2 [] ch = "3" -> 3
      [] ch = "4" -> 4 [] ch = "5" -> 5 [] ch = "6" -> 6 [] ch = "7" -> 7
      [] ch = "8" -> 8 [] ch = "9" -> 9

RECURSIVE DecimalValue(_)
DecimalValue(ds) ==
    IF Len(ds) = 0 THEN 0
    ELSE 10 * DecimalValue(SubSeq(ds, 1, Len(ds) - 1)) + DigitVal(ds[Len(ds)])

\* the Err of str::parse::<usize>
ParseErr == -1

\* str::parse::<usize>(): an optional "+", then at least one decimal digit and
\* nothing else; a value above usize::MAX is an error
ParseUsize(s) ==
    LET ds == IF Len(s) > 0 /\ s[1] = "+" THEN Tail(s) ELSE s
    IN  IF Len(ds) = 0 \/ \E i \in 1..Len(ds) : ds[i] \notin Digits THEN ParseErr
        ELSE IF DecimalValue(ds) > UsizeMax THEN ParseErr
        ELSE DecimalValue(ds)

BYTES_EQ == <<"b", "y", "t", "e", "s", "=">>

\* the results of `x + 1` on usize: the sum when it fits; on overflow a panic
\* (overflow checks on) or the wrapped value (overflow checks off)
UsizeAddOne(x) ==
    IF x + 1 <= UsizeMax THEN {[kind |-> "Some", val |-> x + 1]}
    ELSE {[kind |-> "Panic"], [kind |-> "Some", val |-> (x + 1) % (UsizeMax + 1)]}

\* the mutant of parse_range_header that forgets the "+ 1" of an explicit end
parse_range_header_inclusive_end(range, len) ==
    IF ~StartsWith(range, BYTES_EQ) THEN {[kind |-> "None"]}
    ELSE LET parts == Split(SubSeq(range, 7, Len(range)), "-")
         IN  IF Len(parts) # 2 \/ ParseUsize(parts[1]) = ParseErr THEN {[kind |-> "None"]}
             ELSE IF parts[2] = <<>>
                  THEN {[kind |-> "Some", start |-> ParseUsize(parts[1]), end |-> len]}
             ELSE IF ParseUsize(parts[2]) = ParseErr THEN {[kind |-> "None"]}
             ELSE {[kind |-> "Some", start |-> ParseUsize(parts[1]),
                    end |-> ParseUsize(parts[2])]}

\* the mutant of parse_range_header that reads a missing or unreadable start
\* as 0 instead of giving up
parse_range_header_default_start(range, len) ==
    IF ~StartsWith(range, BYTES_EQ) THEN {[kind |-> "None"]}
    ELSE LET parts == Split(SubSeq(range, 7, Len(range)), "-")
         IN  IF Len(parts) # 2 THEN {[kind |-> "None"]}
             ELSE LET start == IF ParseUsize(parts[1]) = ParseErr THEN 0
                               ELSE ParseUsize(parts[1])
                  IN  IF parts[2] = <<>>
                      THEN {[kind |-> "Some", start |-> start, end |-> len]}
                      ELSE IF ParseUsize(parts[2]) = ParseErr THEN {[kind |-> "None"]}
                      ELSE {IF r.kind = "Panic" THEN [kind |-> "Panic"]
                            ELSE [kind |-> "Some", start |-> start, end |-> r.val] :
                            r \in UsizeAddOne(ParseUsize(parts[2]))}

\* fn parse_range_header: the possible results for one header value and body
\* length: None, Some(start, end exclusive), or a panic of the "+ 1"
parse_range_header(range, len) ==
    IF ~StartsWith(range, BYTES_EQ) THEN {[kind |-> "None"]}
    ELSE LET parts == Split(SubSeq(range, 7, Len(range)), "-")
         IN  IF Len(parts) # 2 THEN {[kind |-> "None"]}
             ELSE LET start == ParseUsize(parts[1])
                  IN  IF start = ParseErr THEN {[kind |-> "None"]}
                      ELSE IF parts[2] = <<>>
                           THEN {[kind |-> "Some", start |-> start, end |-> len]}
                      ELSE IF ParseUsize(parts[2]) = ParseErr THEN {[kind |-> "None"]}
                      ELSE {IF r.kind = "Panic" THEN [kind |-> "Panic"]
                            ELSE [kind |-> "Some", start |-> start, end |-> r.val] :
                            r \in UsizeAddOne(ParseUsize(parts[2]))}

\* a response: status, body and the headers the handler sets (a function from
\* the names of the headers present to their values)
Response(status, body, headers) ==
    [status |-> status, body |-> body, headers |-> headers]

\* StatusCode::X.into_response(): no body, no headers
StatusOnly(status) == Response(status, <<>>, <<>>)

XCache(is_cache_hit) == IF is_cache_hit THEN "HIT" ELSE "MISS"

\* the mutant of RangeResult that serves one byte too many
RangeResultOffByOne(body, start, end, is_cache_hit) ==
    IF start >= Len(body) \/ end > Len(body) \/ start >= end
    THEN [kind |-> "Some", resp |-> StatusOnly(416), add |-> 0]
    ELSE LET partial == SubSeq(body, start + 1, IF end < Len(body) THEN end + 1 ELSE end)
         IN  [kind |-> "Some",
              resp |-> Response(206, partial,
                                [content_range |-> <<start, end - 1, Len(body)>>,
                                 content_length |-> Len(partial),
                                 x_cache |-> XCache(is_cache_hit)]),
              add |-> Len(partial)]

\* the mutant of RangeResult that adds the whole body length to bytes_served
RangeResultCountsWhole(body, start, end, is_cache_hit) ==
    IF start >= Len(body) \/ end > Len(body) \/ start >= end
    THEN [kind |-> "Some", resp |-> StatusOnly(416), add |-> 0]
    ELSE LET partial == SubSeq(body, start + 1, end)
         IN  [kind |-> "Some",
              resp |-> Response(206, partial,
                                [content_range |-> <<start, end - 1, Len(body)>>,
                                 content_length |-> Len(partial),
                                 x_cache |-> XCache(is_cache_hit)]),
              add |-> Len(body)]

\* handle_range_response once the header has parsed to (start, end): 416 for
\* a window outside the body, else 206 with the slice body[start..end]; add is
\* the amount the function adds to bytes_served
RangeResult(body, start, end, is_cache_hit) ==
    IF start >= Len(body) \/ end > Len(body) \/ start >= end
    THEN [kind |-> "Some", resp |-> StatusOnly(416), add |-> 0]
    ELSE LET partial == SubSeq(body, start + 1, end)
         IN  [kind |-> "Some",
              resp |-> Response(206, partial,
                                [content_range |-> <<start, end - 1, Len(body)>>,
                                 content_length |-> Len(partial),
                                 x_cache |-> XCache(is_cache_hit)]),
              add |-> Len(partial)]

\* async fn handle_range_response: the possible results for one body and one
\* Range header value: None (the header did not parse), Some(response), or a
\* panic -- of the "+ 1" in parse_range_header, or of the "end - 1" that the
\* debug! line evaluates when end = 0, overflow checks are on and the DEBUG
\* level is enabled
handle_range_response(body, range_str, is_cache_hit) ==
    UNION {
        IF p.kind = "None" THEN {[kind |-> "None"]}
        ELSE IF p.kind = "Panic" THEN {[kind |-> "Panic"]}
        ELSE (IF p.end = 0 THEN {[kind |-> "Panic"]} ELSE {})
             \cup {RangeResult(body, p.start, p.end, is_cache_hit)} :
        p \in parse_range_header(range_str, Len(body))}

(***************************************************************************)
(* Per-Origin Cache: lru::LruCache<String, Vec<u8>> as the list of its     *)
(* entries, most recently used first.                                      *)
(***************************************************************************)
\* the capacity passed to LruCache::new (1024 in launch_proxy), scaled down so
\* that the model fills a cache and evicts from it
CacheCapacity == 2

\* position of key k in the list c, 0 when absent
LruIndex(c, k) ==
    IF \E i \in 1..Len(c) : c[i].key = k
    THEN CHOOSE i \in 1..Len(c) : c[i].key = k
    ELSE 0

LruKeys(c) == {c[i].key : i \in 1..Len(c)}

\* the list c without its i-th entry
LruRemoveAt(c, i) == SubSeq(c, 1, i - 1) \o SubSeq(c, i + 1, Len(c))

\* the mutant of LruGet that finds the entry without marking it recently used
LruGetNoPromote(c, k) == c

\* LruCache::get(k): the list after the call; a hit moves the entry to the front
LruGet(c, k) ==
    LET i == LruIndex(c, k)
    IN  IF i = 0 THEN c ELSE <<c[i]>> \o LruRemoveAt(c, i)

\* the mutant of LruPut that never drops an entry
LruPutNoEvict(c, k, v) ==
    LET i == LruIndex(c, k)
        e == [key |-> k, val |-> v]
    IN  IF i # 0 THEN <<e>> \o LruRemoveAt(c, i) ELSE <<e>> \o c

\* LruCache::put(k, v): an existing key is overwritten and moved to the front;
\* a new key is put at the front after the last entry of a full list is dropped
LruPut(c, k, v) ==
    LET i == LruIndex(c, k)
        e == [key |-> k, val |-> v]
    IN  IF i # 0 THEN <<e>> \o LruRemoveAt(c, i)
        ELSE IF Len(c) >= CacheCapacity THEN <<e>> \o SubSeq(c, 1, CacheCapacity - 1)
        ELSE <<e>> \o c

(***************************************************************************)
(* Stats Aggregator: HashMap<String, LogStats> behind one mutex, shared by *)
(* every origin's handler.                                                 *)
(***************************************************************************)
\* LogStats::default()
DefaultStats == [bytes_served |-> 0, request_count |-> 0, cache_hits |-> 0]

\* the mutant of StatsAdd that keeps one set of counters for all origins
StatsAddShared(st, name, field, n) ==
    LET all == DOMAIN st \cup {name}
    IN  [o \in all |->
            [(IF o \in DOMAIN st THEN st[o] ELSE DefaultStats) EXCEPT ![field] = @ + n]]

\* stats_guard.entry(name).or_default() followed by `field += n`
StatsAdd(st, name, field, n) ==
    LET cur == IF name \in DOMAIN st THEN st[name] ELSE DefaultStats
    IN  [o \in DOMAIN st \cup {name} |->
            IF o = name THEN [cur EXCEPT ![field] = @ + n] ELSE st[o]]

(***************************************************************************)
(* Request Dispatcher                                                      *)
(***************************************************************************)
VARIABLES
    cache,      \* origin name -> that origin's LruCache
    stats,      \* the shared StatsMap: origin name -> LogStats, entries made on first touch
    req,        \* client -> the request it has in flight and where its handler stands
    issued,     \* number of requests accepted so far
    delivered,  \* origin name -> payload bytes of the responses delivered to clients
    touches,    \* origin name -> the keys touched in its cache (get hit or put), oldest first
    prev,       \* the exchange that ended last (delivered, abandoned or panicked)
    fn_arg,     \* argument of the function under test (function specifications only)
    fn_out      \* its result

vars == <<cache, stats, req, issued, delivered, touches, prev, fn_arg, fn_out>>

Clients == {1, 2}

Origins == {"A", "B"}

\* an upstream body of n bytes; its bytes name its length and their position
Body(n) == [i \in 1..n |-> 10 * n + i]

\* what one request has done so far to the shared state
ZeroEff == [request_count |-> 0, cache_hits |-> 0, bytes_served |-> 0,
            gets |-> 0, puts |-> 0, fetches |-> 0, fetch_failed |-> FALSE,
            cache_changed |-> FALSE]

\* the value of one counter of origin o in the stats map st, 0 without an entry
Counter(st, o, field) == IF o \in DOMAIN st THEN st[o][field] ELSE 0

\* eff after a step that turned the stats map `old` into `new`
EffStats(eff, old, new, o) ==
    [eff EXCEPT
        !.request_count = @ + Counter(new, o, "request_count") - Counter(old, o, "request_count"),
        !.cache_hits = @ + Counter(new, o, "cache_hits") - Counter(old, o, "cache_hits"),
        !.bytes_served = @ + Counter(new, o, "bytes_served") - Counter(old, o, "bytes_served")]

IdleReq ==
    [pc |-> "idle", origin |-> "", path |-> <<>>, has_range |-> FALSE, range |-> <<>>,
     key |-> <<>>, body |-> <<>>, is_cache_hit |-> FALSE, readme |-> FALSE,
     resp |-> StatusOnly(0), add |-> 0, eff |-> ZeroEff]

NoPrev == [ended |-> "none", origin |-> "", path |-> <<>>, has_range |-> FALSE,
           range |-> <<>>, resp |-> StatusOnly(0), eff |-> ZeroEff]

NoArg == [kind |-> "none"]

NoOut == [kind |-> "none"]

\* the state after launch_proxy and create_multi_router: empty caches, an
\* empty stats map, no request in flight
InitProgram ==
    /\ cache = [o \in Origins |-> <<>>]
    /\ stats = <<>>
    /\ req = [c \in Clients |-> IdleReq]
    /\ issued = 0
    /\ delivered = [o \in Origins |-> 0]
    /\ touches = [o \in Origins |-> <<>>]
    /\ prev = NoPrev

Init ==
    /\ InitProgram
    /\ fn_arg = NoArg
    /\ fn_out = NoOut

\* the mutant of Dispatch that has no special case for README.md
DispatchNoReadme(key) ==
    IF key = INVALID THEN "bad_request" ELSE "lookup"

\* the branch proxy_handler takes on the sanitized path
Dispatch(key) ==
    IF key = INVALID THEN "bad_request"
    ELSE IF key = README THEN "readme"
    ELSE "lookup"

\* the 200 of proxy_handler
FullResponse(body, is_cache_hit) ==
    Response(200, body, [content_length |-> Len(body), x_cache |-> XCache(is_cache_hit)])

\* the 200 of handle_readme
ReadmeResponse(body) ==
    Response(200, body, [content_type |-> "text/markdown; charset=UTF-8",
                         content_length |-> Len(body)])

\* proxy_handler from "Check for range request" on, and handle_readme from its
\* Ok(body) arm on: the possible outcomes for one body and one request. A
\* Range header that handle_range_response answers gives that response, else
\* the full 200; `add` is what the response adds to bytes_served, `counted`
\* whether the handler passes through an "Update bytes served" block at all
ResponseStage(body, has_range, range, is_cache_hit, readme) ==
    LET full == [kind |-> "Resp",
                 resp |-> IF readme THEN ReadmeResponse(body)
                          ELSE FullResponse(body, is_cache_hit),
                 add |-> Len(body), counted |-> TRUE]
    IN  IF ~has_range THEN {full}
        ELSE {IF h.kind = "Panic" THEN [kind |-> "Panic"]
              ELSE IF h.kind = "None" THEN full
              ELSE [kind |-> "Resp", resp |-> h.resp, add |-> h.add,
                    counted |-> (h.resp.status # 416)] :
              h \in handle_range_response(body, range, is_cache_hit)}

\* a request arrives at the router of origin o with raw path p and headers h
Arrive(c, limit, origins, paths, headers) ==
    /\ req[c].pc = "idle"
    /\ issued < limit
    /\ \E o \in origins, p \in paths, h \in headers :
          req' = [req EXCEPT ![c] = [IdleReq EXCEPT !.pc = "count", !.origin = o,
                                     !.path = p, !.has_range = h.has_range,
                                     !.range = h.range]]
    /\ issued' = issued + 1
    /\ UNCHANGED <<cache, stats, delivered, touches, prev, fn_arg, fn_out>>

\* the mutant of IncRequestCount that goes on without counting the request
IncRequestCountSkipped(c) ==
    /\ req[c].pc = "count"
    /\ req' = [req EXCEPT ![c].pc = "sanitize"]
    /\ UNCHANGED <<cache, stats, issued, delivered, touches, prev, fn_arg, fn_out>>

\* the mutant of IncRequestCount that counts the request twice
IncRequestCountTwice(c) ==
    /\ req[c].pc = "count"
    /\ stats' = StatsAdd(stats, req[c].origin, "request_count", 2)
    /\ req' = [req EXCEPT ![c].pc = "sanitize",
                          ![c].eff = EffStats(@, stats, stats', req[c].origin)]
    /\ UNCHANGED <<cache, issued, delivered, touches, prev, fn_arg, fn_out>>

\* proxy_handler: "Update request count"
IncRequestCount(c) ==
    /\ req[c].pc = "count"
    /\ stats' = StatsAdd(stats, req[c].origin, "request_count", 1)
    /\ req' = [req EXCEPT ![c].pc = "sanitize",
                          ![c].eff = EffStats(@, stats, stats', req[c].origin)]
    /\ UNCHANGED <<cache, issued, delivered, touches, prev, fn_arg, fn_out>>

\* the mutant of Sanitize that takes the raw remainder of the path as the key
SanitizeUnchecked(c) ==
    /\ req[c].pc = "sanitize"
    /\ LET i == IndexOf(req[c].path, "/")
           key == IF i = 0 THEN INVALID ELSE SubSeq(req[c].path, i + 1, Len(req[c].path))
           route == Dispatch(key)
       IN  req' = [req EXCEPT ![c] =
                IF route = "bad_request"
                THEN [@ EXCEPT !.pc = "respond", !.resp = StatusOnly(400)]
                ELSE [@ EXCEPT !.pc = route, !.key = key]]
    /\ UNCHANGED <<cache, stats, issued, delivered, touches, prev, fn_arg, fn_out>>

\* proxy_handler: sanitize_path and the two early returns that follow it
Sanitize(c) ==
    /\ req[c].pc = "sanitize"
    /\ LET key == sanitize_path(req[c].path)
           route == Dispatch(key)
       IN  req' = [req EXCEPT ![c] =
                IF route = "bad_request"
                THEN [@ EXCEPT !.pc = "respond", !.resp = StatusOnly(400)]
                ELSE [@ EXCEPT !.pc = route, !.key = key]]
    /\ UNCHANGED <<cache, stats, issued, delivered, touches, prev, fn_arg, fn_out>>

\* handle_readme: fs::read of the origin's README.md fails, or gives its bytes
ReadReadme(c, readmes) ==
    /\ req[c].pc = "readme"
    /\ \/ req' = [req EXCEPT ![c].pc = "respond", ![c].resp = StatusOnly(404)]
       \/ \E b \in readmes :
             req' = [req EXCEPT ![c].pc = "range", ![c].body = b,
                                ![c].is_cache_hit = TRUE, ![c].readme = TRUE]
    /\ UNCHANGED <<cache, stats, issued, delivered, touches, prev, fn_arg, fn_out>>

\* the mutant of CacheLookup in which a fetching request keeps the origin's
\* cache lock from its lookup until its insert, so that a lookup has to wait
CacheLookupBehindFetch(c) ==
    /\ req[c].pc = "lookup"
    /\ \A d \in Clients \ {c} :
          ~(req[d].origin = req[c].origin /\ req[d].pc \in {"send", "recv", "put"})
    /\ LET o == req[c].origin
           i == LruIndex(cache[o], req[c].key)
           after == LruGet(cache[o], req[c].key)
       IN  /\ cache' = [cache EXCEPT ![o] = after]
           /\ touches' = IF i # 0 THEN [touches EXCEPT ![o] = Append(@, req[c].key)]
                         ELSE touches
           /\ req' = [req EXCEPT ![c] =
                  [@ EXCEPT !.pc = IF i # 0 THEN "hit" ELSE "send",
                            !.body = IF i # 0 THEN cache[o][i].val ELSE <<>>,
                            !.is_cache_hit = (i # 0),
                            !.eff.gets = @ + 1,
                            !.eff.cache_changed = @ \/ (after # cache[o])]]
    /\ UNCHANGED <<stats, issued, delivered, prev, fn_arg, fn_out>>

\* the mutant of CacheLookup that counts the hit in the stats map while it
\* still holds the cache lock
CacheLookupCountsHit(c) ==
    /\ req[c].pc = "lookup"
    /\ LET o == req[c].origin
           i == LruIndex(cache[o], req[c].key)
           after == LruGet(cache[o], req[c].key)
       IN  /\ cache' = [cache EXCEPT ![o] = after]
           /\ touches' = IF i # 0 THEN [touches EXCEPT ![o] = Append(@, req[c].key)]
                         ELSE touches
           /\ stats' = IF i # 0 THEN StatsAdd(stats, o, "cache_hits", 1) ELSE stats
           /\ req' = [req EXCEPT ![c] =
                  [@ EXCEPT !.pc = IF i # 0 THEN "range" ELSE "send",
                            !.body = IF i # 0 THEN cache[o][i].val ELSE <<>>,
                            !.is_cache_hit = (i # 0),
                            !.eff.gets = @ + 1,
                            !.eff.cache_hits = @ + (IF i # 0 THEN 1 ELSE 0),
                            !.eff.cache_changed = @ \/ (after # cache[o])]]
    /\ UNCHANGED <<issued, delivered, prev, fn_arg, fn_out>>

\* get_cached_body: cache.lock(), get(cache_key).cloned()
CacheLookup(c) ==
    /\ req[c].pc = "lookup"
    /\ LET o == req[c].origin
           i == LruIndex(cache[o], req[c].key)
           after == LruGet(cache[o], req[c].key)
       IN  /\ cache' = [cache EXCEPT ![o] = after]
           /\ touches' = IF i # 0 THEN [touches EXCEPT ![o] = Append(@, req[c].key)]
                         ELSE touches
           /\ req' = [req EXCEPT ![c] =
                  [@ EXCEPT !.pc = IF i # 0 THEN "hit" ELSE "send",
                            !.body = IF i # 0 THEN cache[o][i].val ELSE <<>>,
                            !.is_cache_hit = (i # 0),
                            !.eff.gets = @ + 1,
                            !.eff.cache_changed = @ \/ (after # cache[o])]]
    /\ UNCHANGED <<stats, issued, delivered, prev, fn_arg, fn_out>>

\* the mutant of IncCacheHits that goes on without counting the hit
IncCacheHitsSkipped(c) ==
    /\ req[c].pc = "hit"
    /\ req' = [req EXCEPT ![c].pc = "range"]
    /\ UNCHANGED <<cache, stats, issued, delivered, touches, prev, fn_arg, fn_out>>

\* proxy_handler: "Update cache hit count"
IncCacheHits(c) ==
    /\ req[c].pc = "hit"
    /\ stats' = StatsAdd(stats, req[c].origin, "cache_hits", 1)
    /\ req' = [req EXCEPT ![c].pc = "range",
                          ![c].eff = EffStats(@, stats, stats', req[c].origin)]
    /\ UNCHANGED <<cache, issued, delivered, touches, prev, fn_arg, fn_out>>

\* fetch_and_cache_body: client.get(url).send() fails in transport, or answers
\* with a status that is not a success, or answers with a success status
UpstreamSend(c) ==
    /\ req[c].pc = "send"
    /\ \E outcome \in {"transport_error", "error_status", "success"} :
          req' = [req EXCEPT ![c] =
              IF outcome = "success"
              THEN [@ EXCEPT !.pc = "recv", !.eff.fetches = @ + 1]
              ELSE [@ EXCEPT !.pc = "respond", !.resp = StatusOnly(502),
                             !.eff.fetches = @ + 1, !.eff.fetch_failed = TRUE]]
    /\ UNCHANGED <<cache, stats, issued, delivered, touches, prev, fn_arg, fn_out>>

\* the mutant of UpstreamBody that caches what it has when the body read fails
UpstreamBodyCachesPartial(c, bodies) ==
    /\ req[c].pc = "recv"
    /\ \/ LET o == req[c].origin
               after == LruPut(cache[o], req[c].key, <<>>)
           IN  /\ cache' = [cache EXCEPT ![o] = after]
               /\ req' = [req EXCEPT ![c].pc = "respond", ![c].resp = StatusOnly(502),
                                     ![c].eff.fetch_failed = TRUE,
                                     ![c].eff.puts = @ + 1,
                                     ![c].eff.cache_changed = @ \/ (after # cache[o])]
       \/ /\ \E b \in bodies : req' = [req EXCEPT ![c].pc = "put", ![c].body = b]
          /\ cache' = cache
    /\ UNCHANGED <<stats, issued, delivered, touches, prev, fn_arg, fn_out>>

\* fetch_and_cache_body: resp.bytes() fails, or buffers the whole body
UpstreamBody(c, bodies) ==
    /\ req[c].pc = "recv"
    /\ \/ req' = [req EXCEPT ![c].pc = "respond", ![c].resp = StatusOnly(502),
                             ![c].eff.fetch_failed = TRUE]
       \/ \E b \in bodies : req' = [req EXCEPT ![c].pc = "put", ![c].body = b]
    /\ UNCHANGED <<cache, stats, issued, delivered, touches, prev, fn_arg, fn_out>>

\* the mutant of CachePut that returns the fetched body without caching it
CachePutForgotten(c) ==
    /\ req[c].pc = "put"
    /\ req' = [req EXCEPT ![c].pc = "range"]
    /\ UNCHANGED <<cache, stats, issued, delivered, touches, prev, fn_arg, fn_out>>

\* the mutant of CachePut that keeps the entry of a key that is already
\* cached (the first write wins)
CachePutIfAbsent(c) ==
    /\ req[c].pc = "put"
    /\ LET o == req[c].origin
           after == IF LruIndex(cache[o], req[c].key) # 0 THEN cache[o]
                    ELSE LruPut(cache[o], req[c].key, req[c].body)
       IN  /\ cache' = [cache EXCEPT ![o] = after]
           /\ touches' = [touches EXCEPT ![o] = Append(@, req[c].key)]
           /\ req' = [req EXCEPT ![c].pc = "range", ![c].eff.puts = @ + 1,
                                 ![c].eff.cache_changed = @ \/ (after # cache[o])]
    /\ UNCHANGED <<stats, issued, delivered, prev, fn_arg, fn_out>>

\* the mutant of CachePut that caches what a request with a Range header is
\* about to serve of the body, here the body without its first byte
CachePutSlice(c) ==
    /\ req[c].pc = "put"
    /\ LET o == req[c].origin
           stored == IF req[c].has_range /\ Len(req[c].body) > 0
                     THEN Tail(req[c].body) ELSE req[c].body
           after == LruPut(cache[o], req[c].key, stored)
       IN  /\ cache' = [cache EXCEPT ![o] = after]
           /\ touches' = [touches EXCEPT ![o] = Append(@, req[c].key)]
           /\ req' = [req EXCEPT ![c].pc = "range", ![c].eff.puts = @ + 1,
                                 ![c].eff.cache_changed = @ \/ (after # cache[o])]
    /\ UNCHANGED <<stats, issued, delivered, prev, fn_arg, fn_out>>

\* fetch_and_cache_body: cache.lock(), put(cache_key, body.clone())
CachePut(c) ==
    /\ req[c].pc = "put"
    /\ LET o == req[c].origin
           after == LruPut(cache[o], req[c].key, req[c].body)
       IN  /\ cache' = [cache EXCEPT ![o] = after]
           /\ touches' = [touches EXCEPT ![o] = Append(@, req[c].key)]
           /\ req' = [req EXCEPT ![c].pc = "range", ![c].eff.puts = @ + 1,
                                 ![c].eff.cache_changed = @ \/ (after # cache[o])]
    /\ UNCHANGED <<stats, issued, delivered, prev, fn_arg, fn_out>>

\* the exchange of client c as it ends in the way `how`; the specifications
\* that do not read prev leave it unrecorded (history = FALSE)
Ended(c, how, history) ==
    IF ~history THEN prev
    ELSE [ended |-> how, origin |-> req[c].origin, path |-> req[c].path,
          has_range |-> req[c].has_range, range |-> req[c].range,
          resp |-> IF how = "delivered" THEN req[c].resp ELSE StatusOnly(0),
          eff |-> req[c].eff]

\* proxy_handler / handle_readme: "Check for range request" up to the point
\* where the response is decided: a 416 returns at once, a 206 and a 200 go on
\* to the bytes_served update, a panic ends the handler without a response
ResolveRange(c, history) ==
    /\ req[c].pc = "range"
    /\ \E out \in ResponseStage(req[c].body, req[c].has_range, req[c].range,
                                req[c].is_cache_hit, req[c].readme) :
          IF out.kind = "Panic"
          THEN /\ req' = [req EXCEPT ![c] = IdleReq]
               /\ prev' = Ended(c, "panicked", history)
          ELSE /\ req' = [req EXCEPT ![c].pc = IF out.counted THEN "bytes" ELSE "respond",
                                     ![c].resp = out.resp, ![c].add = out.add]
               /\ prev' = prev
    /\ UNCHANGED <<cache, stats, issued, delivered, touches, fn_arg, fn_out>>

\* "Update bytes served" of proxy_handler, handle_readme and handle_range_response
AddBytesServed(c) ==
    /\ req[c].pc = "bytes"
    /\ stats' = StatsAdd(stats, req[c].origin, "bytes_served", req[c].add)
    /\ req' = [req EXCEPT ![c].pc = "respond",
                          ![c].eff = EffStats(@, stats, stats', req[c].origin)]
    /\ UNCHANGED <<cache, issued, delivered, touches, prev, fn_arg, fn_out>>

\* the response the handler returned reaches the client
Deliver(c, history) ==
    /\ req[c].pc = "respond"
    /\ delivered' = [delivered EXCEPT ![req[c].origin] = @ + Len(req[c].resp.body)]
    /\ prev' = Ended(c, "delivered", history)
    /\ req' = [req EXCEPT ![c] = IdleReq]
    /\ UNCHANGED <<cache, stats, issued, touches, fn_arg, fn_out>>

\* the places where the handler's future is suspended (a lock, the upstream,
\* the file read), and the returned response waiting to be written out
SuspensionPoints ==
    {"count", "readme", "lookup", "hit", "send", "recv", "put", "bytes", "respond"}

\* the client disconnects: the handler's future is dropped where it is
\* suspended, or the response it returned is never written out
Abandon(c, history) ==
    /\ req[c].pc \in SuspensionPoints
    /\ prev' = Ended(c, "abandoned", history)
    /\ req' = [req EXCEPT ![c] = IdleReq]
    /\ UNCHANGED <<cache, stats, issued, delivered, touches, fn_arg, fn_out>>

(***************************************************************************)
(* The requests of the model                                               *)
(***************************************************************************)
PATH_A == <<"t", "/", "a">>

PATH_B == <<"t", "/", "b">>

PATH_C == <<"t", "/", "c">>

\* PATH_A behind another first segment
PATH_A2 == <<"u", "/", "a">>

PATH_README == <<"t", "/">> \o README

PATH_TRAVERSAL == <<"t", "/", ".", ".", "/", "a">>

NoRange == [has_range |-> FALSE, range |-> <<>>]

Range(value) == [has_range |-> TRUE, range |-> value]

\* "bytes=1-1"
RANGE_1_1 == BYTES_EQ \o <<"1", "-", "1">>

\* "bytes=0-", satisfiable on every body but the empty one
RANGE_0_OPEN == BYTES_EQ \o <<"0", "-">>

\* the bodies the upstream may answer with
Bodies == {Body(n) : n \in 0..MaxBodyLen}

(***************************************************************************)
(* Spec: concurrent clients, every branch of the handler.                  *)
(***************************************************************************)
Next ==
    \E c \in Clients :
        \/ Arrive(c, MaxRequests, Origins, {PATH_A, PATH_README, PATH_TRAVERSAL},
                  {NoRange, Range(RANGE_0_OPEN)})
        \/ IncRequestCount(c)
        \/ Sanitize(c)
        \/ ReadReadme(c, {Body(1)})
        \/ CacheLookup(c)
        \/ IncCacheHits(c)
        \/ UpstreamSend(c)
        \/ UpstreamBody(c, {Body(0), Body(2)})
        \/ CachePut(c)
        \/ ResolveRange(c, FALSE)
        \/ AddBytesServed(c)
        \/ Deliver(c, FALSE)
        \/ Abandon(c, FALSE)

Spec == Init /\ [][Next]_vars

(***************************************************************************)
(* SpecCache: concurrent clients of one origin asking for more distinct    *)
(* keys than the cache holds. No request names README.md, so ReadReadme is *)
(* never enabled and is left out. Clients do not disconnect here: a        *)
(* dropped handler has done to the cache what a handler that ran on to its *)
(* 502 or to its response has done, so the caches reached are the same.    *)
(***************************************************************************)
\* two upstream bodies of one byte each
CacheBodies == {<<1>>, <<2>>}

NextCache ==
    \E c \in Clients :
        \/ Arrive(c, MaxCacheRequests, {"A"}, {PATH_A, PATH_B, PATH_C}, {NoRange})
        \/ IncRequestCount(c)
        \/ Sanitize(c)
        \/ CacheLookup(c)
        \/ IncCacheHits(c)
        \/ UpstreamSend(c)
        \/ UpstreamBody(c, CacheBodies)
        \/ CachePut(c)
        \/ ResolveRange(c, FALSE)
        \/ AddBytesServed(c)
        \/ Deliver(c, FALSE)

SpecCache == Init /\ [][NextCache]_vars

(***************************************************************************)
(* SpecSeq: one client, one request after the other, with the exchange     *)
(* that ended last kept in prev.                                           *)
(***************************************************************************)
\* "invalid-range-format", as far as the parser reads it: no "bytes=" prefix
RANGE_MALFORMED == <<"i", "n", "v", "-", "r">>

\* "bytes=0-1,3-3": two ranges
RANGE_MULTI == BYTES_EQ \o <<"0", "-", "1", ",", "3", "-", "3">>

\* "bytes=3-1": start after end
RANGE_3_1 == BYTES_EQ \o <<"3", "-", "1">>

NextSeq ==
    \E c \in {1} :
        \/ Arrive(c, MaxSeqRequests, {"A"},
                  {PATH_A, PATH_A2, PATH_B, PATH_README, PATH_TRAVERSAL},
                  {NoRange, Range(RANGE_1_1), Range(RANGE_0_OPEN), Range(RANGE_3_1),
                   Range(RANGE_MALFORMED), Range(RANGE_MULTI)})
        \/ IncRequestCount(c)
        \/ Sanitize(c)
        \/ ReadReadme(c, {Body(1), Body(3)})
        \/ CacheLookup(c)
        \/ IncCacheHits(c)
        \/ UpstreamSend(c)
        \/ UpstreamBody(c, Bodies)
        \/ CachePut(c)
        \/ ResolveRange(c, TRUE)
        \/ AddBytesServed(c)
        \/ Deliver(c, TRUE)
        \/ Abandon(c, TRUE)

SpecSeq == Init /\ [][NextSeq]_vars

(***************************************************************************)
(* SpecLive: concurrent clients that stay connected; every step of a       *)
(* handler that can be taken is eventually taken (the upstream call and    *)
(* the file read return, a lock is eventually granted).                    *)
(***************************************************************************)
\* the next step of the handler of client c
HandlerStep(c) ==
    \/ IncRequestCount(c)
    \/ Sanitize(c)
    \/ ReadReadme(c, {Body(1)})
    \/ CacheLookup(c)
    \/ IncCacheHits(c)
    \/ UpstreamSend(c)
    \/ UpstreamBody(c, {Body(0), Body(2)})
    \/ CachePut(c)
    \/ ResolveRange(c, FALSE)
    \/ AddBytesServed(c)

NextLive ==
    \E c \in Clients :
        \/ Arrive(c, MaxLiveRequests, Origins, {PATH_A, PATH_README, PATH_TRAVERSAL},
                  {NoRange, Range(RANGE_0_OPEN)})
        \/ HandlerStep(c)
        \/ Deliver(c, FALSE)

SpecLive ==
    /\ Init
    /\ [][NextLive]_vars
    /\ \A c \in Clients : WF_vars(HandlerStep(c)) /\ WF_vars(Deliver(c, FALSE))

(***************************************************************************)
(* SpecSanitize: sanitize_path and the dispatch on its result, on every    *)
(* raw path of at most MaxPathLen characters.                              *)
(***************************************************************************)
PathChars == {"/", ".", "a"}

RawPaths == SeqsUpTo(PathChars, MaxPathLen)

InitSanitize ==
    /\ InitProgram
    /\ fn_arg \in {[kind |-> "path", path |-> p] : p \in RawPaths}
    /\ fn_out = NoOut

ApplySanitize ==
    /\ fn_arg.kind = "path"
    /\ fn_out = NoOut
    /\ fn_out' = [kind |-> "route", key |-> sanitize_path(fn_arg.path),
                  route |-> Dispatch(sanitize_path(fn_arg.path))]
    /\ UNCHANGED <<cache, stats, req, issued, delivered, touches, prev, fn_arg>>

SpecSanitize == InitSanitize /\ [][ApplySanitize]_vars

(***************************************************************************)
(* SpecKeys: one client asking for every raw path of at most MaxKeyPathLen *)
(* characters, and for README.md, one request after the other.             *)
(***************************************************************************)
KeyPaths == SeqsUpTo(PathChars, MaxKeyPathLen) \cup {PATH_README}

NextKeys ==
    \E c \in {1} :
        \/ Arrive(c, MaxSeqRequests, {"A"}, KeyPaths, {NoRange})
        \/ IncRequestCount(c)
        \/ Sanitize(c)
        \/ ReadReadme(c, {Body(1)})
        \/ CacheLookup(c)
        \/ IncCacheHits(c)
        \/ UpstreamSend(c)
        \/ UpstreamBody(c, {Body(1)})
        \/ CachePut(c)
        \/ ResolveRange(c, FALSE)
        \/ AddBytesServed(c)
        \/ Deliver(c, FALSE)

SpecKeys == Init /\ [][NextKeys]_vars

(***************************************************************************)
(* SpecRange: the response stage on every body of at most MaxBodyLen bytes *)
(* and every Range header value "bytes=" + at most MaxRangeLen characters, *)
(* and the same texts without the prefix or behind a wrong one.            *)
(***************************************************************************)
RangeChars == {"-", ",", "0", "1", "3"}

RangeTails == SeqsUpTo(RangeChars, MaxRangeLen)

RangeValues ==
    {BYTES_EQ \o t : t \in RangeTails}
        \cup {p \o t : p \in {<<>>, <<"b", "y", "t", "e", "s">>, <<"B">> \o Tail(BYTES_EQ)},
                       t \in SeqsUpTo(RangeChars, 3)}

InitRange ==
    /\ InitProgram
    /\ fn_arg \in {[kind |-> "range", body |-> b, has_range |-> h.has_range,
                    range |-> h.range, is_cache_hit |-> f.hit, readme |-> f.readme] :
                   b \in Bodies,
                   h \in {NoRange} \cup {Range(v) : v \in RangeValues},
                   f \in {[hit |-> FALSE, readme |-> FALSE], [hit |-> TRUE, readme |-> FALSE],
                          [hit |-> TRUE, readme |-> TRUE]}}
    /\ fn_out = NoOut

ApplyRange ==
    /\ fn_arg.kind = "range"
    /\ fn_out = NoOut
    /\ fn_out' \in ResponseStage(fn_arg.body, fn_arg.has_range, fn_arg.range,
                                 fn_arg.is_cache_hit, fn_arg.readme)
    /\ UNCHANGED <<cache, stats, req, issued, delivered, touches, prev, fn_arg>>

SpecRange == InitRange /\ [][ApplyRange]_vars

(***************************************************************************)
(* Claims                                                                  *)
(***************************************************************************)
\* some "/"-separated piece of the text is ".."
HasDotDotSegment(text) ==
    \E i \in 1..Len(Split(text, "/")) : Split(text, "/")[i] = DOTDOT

\* the text begins with the root "/"
HasRoot(text) == StartsWith(text, SLASH)

\* the part of a raw path behind its first "/" (nothing when it has no "/")
AfterFirstSegment(path) ==
    IF IndexOf(path, "/") = 0 THEN <<>>
    ELSE SubSeq(path, IndexOf(path, "/") + 1, Len(path))

\* C1 as stated: every raw path that holds a ".." segment or a root component
\* anywhere sanitizes to the invalid sentinel and is answered 400 before any
\* cache lookup or upstream fetch.
C1_AnywhereRejected ==
    (fn_out.kind = "route" /\ (HasDotDotSegment(fn_arg.path) \/ HasRoot(fn_arg.path)))
        => (fn_out.key = INVALID /\ fn_out.route = "bad_request")

\* C1 amended: every raw path whose part behind the first segment holds a ".."
\* segment or begins with a root "/" sanitizes to the invalid sentinel and is
\* answered 400 before any cache lookup or upstream fetch.
C1_RemainderRejected ==
    (fn_out.kind = "route"
        /\ (HasDotDotSegment(AfterFirstSegment(fn_arg.path))
                \/ HasRoot(AfterFirstSegment(fn_arg.path))))
        => (fn_out.key = INVALID /\ fn_out.route = "bad_request")

\* "a/a/.." has been sanitized and routed to the 400
C1_Witness ==
    /\ fn_out.kind = "route"
    /\ fn_arg.path = <<"a", "/", "a", "/", ".", ".">>
    /\ fn_out.key = INVALID
    /\ fn_out.route = "bad_request"

\* the value of header `name` of a response, "" when it is absent
HeaderOf(resp, name) ==
    IF name \in DOMAIN resp.headers THEN resp.headers[name] ELSE ""

\* the request with effects eff went to the upstream and got a body
FetchedOk(eff) == eff.fetches = 1 /\ ~eff.fetch_failed

\* the request of client c repeats the exchange in prev: same origin, same
\* raw path, both without a Range header
RepeatsPrev(c) ==
    /\ prev.ended = "delivered"
    /\ prev.origin = req[c].origin
    /\ prev.path = req[c].path
    /\ ~prev.has_range
    /\ ~req[c].has_range

\* C2: when a GET that fetched its body from the upstream and was answered is
\* followed by a GET of the same path on the same origin, the first answer is
\* 200 with X-Cache: MISS and the second is 200 with X-Cache: HIT and the
\* same body bytes.
C2_MissThenHit ==
    \A c \in {1} :
        (req[c].pc = "respond" /\ RepeatsPrev(c) /\ FetchedOk(prev.eff))
            => /\ prev.resp.status = 200
               /\ HeaderOf(prev.resp, "x_cache") = "MISS"
               /\ req[c].resp.status = 200
               /\ HeaderOf(req[c].resp, "x_cache") = "HIT"
               /\ req[c].resp.body = prev.resp.body

\* the second of two GETs of t/a is about to be answered from the cache
C2_Witness ==
    /\ req[1].pc = "respond"
    /\ RepeatsPrev(1)
    /\ FetchedOk(prev.eff)
    /\ req[1].path = PATH_A
    /\ req[1].resp.status = 200
    /\ req[1].resp.body = Body(2)
    /\ HeaderOf(req[1].resp, "x_cache") = "HIT"

DigitChar(d) ==
    CASE d = 0 -> "0" [] d = 1 -> "1" [] d = 2 -> "2" [] d = 3 -> "3" [] d = 4 -> "4"
      [] d = 5 -> "5" [] d = 6 -> "6" [] d = 7 -> "7" [] d = 8 -> "8" [] d = 9 -> "9"

RECURSIVE FormatUsize(_)
\* format!("{}", n)
FormatUsize(n) ==
    IF n < 10 THEN <<DigitChar(n)>>
    ELSE Append(FormatUsize(n \div 10), DigitChar(n % 10))

\* format!("bytes={}-{}", s, e), the header the tests' get_range sends
ClosedRange(s, e) == BYTES_EQ \o FormatUsize(s) \o <<"-">> \o FormatUsize(e)

\* format!("bytes={}-", s)
OpenRange(s) == BYTES_EQ \o FormatUsize(s) \o <<"-">>

\* the numbers that the enumerated Range header values can spell
RangeNumbers ==
    {n \in 0..UsizeMax :
        \A i \in 1..Len(FormatUsize(n)) : FormatUsize(n)[i] \in RangeChars}

ClosedForms == {<<ClosedRange(s, e), s, e>> : s \in RangeNumbers, e \in RangeNumbers}

OpenForms == {<<OpenRange(s), s>> : s \in RangeNumbers}

\* the response stage has run on a request that carries a Range header
RangeAnswered ==
    fn_arg.kind = "range" /\ fn_arg.has_range /\ fn_out.kind # "none"

\* the outcome is the 206 for bytes s..=e of the body
Is206(out, body, s, e) ==
    /\ out.kind = "Resp"
    /\ out.resp.status = 206
    /\ HeaderOf(out.resp, "content_range") = <<s, e, Len(body)>>
    /\ HeaderOf(out.resp, "content_length") = e - s + 1
    /\ out.resp.body = SubSeq(body, s + 1, e + 1)

\* C3: for a body of length L, "bytes=s-e" with s <= e < L, and "bytes=s-"
\* with s < L (then e = L - 1), is answered 206 with Content-Range
\* "bytes s-e/L", Content-Length e - s + 1 and exactly bytes s..=e as body.
C3_SatisfiableRange ==
    RangeAnswered =>
        LET L == Len(fn_arg.body)
        IN  /\ \A f \in ClosedForms :
                  (f[1] = fn_arg.range /\ f[2] <= f[3] /\ f[3] < L)
                      => Is206(fn_out, fn_arg.body, f[2], f[3])
            /\ \A f \in OpenForms :
                  (f[1] = fn_arg.range /\ f[2] < L)
                      => Is206(fn_out, fn_arg.body, f[2], L - 1)

\* "bytes=1-1" on the three-byte body has been answered with its middle byte
C3_Witness ==
    /\ RangeAnswered
    /\ fn_arg.range = ClosedRange(1, 1)
    /\ fn_arg.body = Body(3)
    /\ Is206(fn_out, Body(3), 1, 1)
    /\ fn_out.resp.body = <<32>>

\* the outcome is the bare 416: no body, no Content-Range, no X-Cache, and
\* nothing added to bytes_served
Is416(out) ==
    /\ out.kind = "Resp"
    /\ out.resp.status = 416
    /\ out.resp.body = <<>>
    /\ "content_range" \notin DOMAIN out.resp.headers
    /\ "x_cache" \notin DOMAIN out.resp.headers
    /\ out.add = 0
    /\ ~out.counted

\* C4: a Range header that parses to a window [start, end_exclusive) with
\* start >= length, start >= end_exclusive or end_exclusive > length is
\* answered 416 with an empty body, no Content-Range, no X-Cache, and adds
\* nothing to bytes_served.
C4_UnsatisfiableRange ==
    RangeAnswered =>
        LET L == Len(fn_arg.body)
        IN  /\ \A f \in ClosedForms :
                  (f[1] = fn_arg.range /\ (f[2] >= L \/ f[2] >= f[3] + 1 \/ f[3] + 1 > L))
                      => Is416(fn_out)
            /\ \A f \in OpenForms :
                  (f[1] = fn_arg.range /\ (f[2] >= L \/ f[2] >= L))
                      => Is416(fn_out)

IsDigits(text) == \A i \in 1..Len(text) : text[i] \in Digits

\* the header value has the form bytes=<start>-[<end>]: the prefix, at least
\* one digit, one "-", and then digits or nothing
MatchesSingleForm(value) ==
    /\ StartsWith(value, BYTES_EQ)
    /\ LET text == SubSeq(value, 7, Len(value))
           i == IndexOf(text, "-")
       IN  /\ i > 1
           /\ IsDigits(SubSeq(text, 1, i - 1))
           /\ IsDigits(SubSeq(text, i + 1, Len(text)))

\* C5: a Range header value that is not of the form bytes=<start>-[<end>] is
\* answered as if there were no Range header: the full 200 with the whole
\* body, its length as Content-Length, the X-Cache value of the lookup, and
\* the whole length added to bytes_served.
C5_MalformedRangeIgnored ==
    (RangeAnswered /\ ~MatchesSingleForm(fn_arg.range)) =>
        /\ fn_out.kind = "Resp"
        /\ fn_out.resp.status = 200
        /\ fn_out.resp.body = fn_arg.body
        /\ HeaderOf(fn_out.resp, "content_length") = Len(fn_arg.body)
        /\ fn_out.add = Len(fn_arg.body)
        /\ fn_out.counted
        /\ ~fn_arg.readme => HeaderOf(fn_out.resp, "x_cache") = XCache(fn_arg.is_cache_hit)
        /\ {fn_out} = ResponseStage(fn_arg.body, FALSE, <<>>, fn_arg.is_cache_hit,
                                    fn_arg.readme)

\* the two-range value "bytes=0-,1-" has been answered with the full body
C5_Witness ==
    /\ RangeAnswered
    /\ fn_arg.range = BYTES_EQ \o <<"0", "-", ",", "1", "-">>
    /\ fn_arg.body = Body(2)
    /\ fn_out.kind = "Resp"
    /\ fn_out.resp.status = 200
    /\ fn_out.resp.body = Body(2)

\* C6: a request whose upstream fetch failed (transport failure, non-success
\* status, or body read failure) ends in 502, has not changed the cache, has
\* not counted a cache hit, and has changed the stats by its one initial
\* request_count increment only.
C6_FailedFetchLeavesNoTrace ==
    \A c \in Clients :
        req[c].eff.fetch_failed =>
            /\ req[c].pc = "respond"
            /\ req[c].resp = StatusOnly(502)
            /\ ~req[c].eff.cache_changed
            /\ req[c].eff.puts = 0
            /\ req[c].eff.cache_hits = 0
            /\ req[c].eff.bytes_served = 0
            /\ req[c].eff.request_count = 1

\* a fetch on origin A has failed while that origin's cache holds an entry and
\* its counters show an earlier request
C6_Witness ==
    /\ req[1].eff.fetch_failed
    /\ req[1].pc = "respond"
    /\ req[1].origin = "A"
    /\ req[1].resp.status = 502
    /\ Len(cache["A"]) = 1
    /\ Counter(stats, "A", "request_count") >= 2

\* C7: at every moment, under every interleaving of the requests in flight,
\* every origin's cache_hits is at most its request_count.
C7_HitsAtMostRequests ==
    \A o \in DOMAIN stats : stats[o].cache_hits <= stats[o].request_count

\* two requests in flight at once have both counted a hit on origin A
C7_Witness ==
    /\ Counter(stats, "A", "cache_hits") = 2
    /\ Counter(stats, "A", "request_count") = 3
    /\ req[1].pc = "range" /\ req[1].is_cache_hit /\ req[1].origin = "A"
    /\ req[2].pc = "range" /\ req[2].is_cache_hit /\ req[2].origin = "A"

\* C8: at every moment, whatever gets and puts concurrent requests have made,
\* each origin's cache holds at most its capacity of entries.
C8_CacheWithinCapacity ==
    \A o \in Origins : Len(cache[o]) <= CacheCapacity

\* the keys touched so far in origin o's cache
TouchedKeys(o) == {touches[o][i] : i \in 1..Len(touches[o])}

\* more distinct keys than the capacity have been put and the cache is full
C8_Witness ==
    /\ Cardinality(TouchedKeys("A")) > CacheCapacity
    /\ Len(cache["A"]) = CacheCapacity

\* the position of the latest touch of key k in the touch history t
LastTouch(t, k) == CHOOSE i \in 1..Len(t) : t[i] = k /\ \A j \in (i + 1)..Len(t) : t[j] # k

\* the key of cache c whose latest touch in t is the oldest
LeastRecentlyTouched(c, t) ==
    CHOOSE k \in LruKeys(c) : \A other \in LruKeys(c) : LastTouch(t, k) <= LastTouch(t, other)

\* the bytes cached under key k in c
LruValue(c, k) == c[LruIndex(c, k)].val

\* C9: a step that puts a new key into a full cache drops exactly one entry,
\* the one touched least recently (a get hit and a put both count as a
\* touch); every other entry that was present is still there with its bytes
\* unchanged.
C9_EvictsLeastRecentlyTouched ==
    [][\A o \in Origins :
          (Len(cache[o]) = CacheCapacity /\ LruKeys(cache'[o]) \ LruKeys(cache[o]) # {})
              => LET dropped == LruKeys(cache[o]) \ LruKeys(cache'[o])
                 IN  /\ dropped = {LeastRecentlyTouched(cache[o], touches[o])}
                     /\ \A k \in LruKeys(cache[o]) \ dropped :
                           LruValue(cache'[o], k) = LruValue(cache[o], k)]_vars

\* a was put, b was put, a was hit, c was put: b is gone, a and c are cached
C9_Witness ==
    /\ touches["A"] = <<<<"a">>, <<"b">>, <<"a">>, <<"c">>>>
    /\ LruKeys(cache["A"]) = {<<"a">>, <<"c">>}

\* C10: with no request in flight, every origin's bytes_served equals the
\* payload bytes of the responses delivered to its clients; no bytes are
\* counted for a response that was not delivered.
C10_BytesServedIsDelivered ==
    (\A c \in Clients : req[c].pc = "idle")
        => \A o \in Origins : Counter(stats, o, "bytes_served") = delivered[o]

\* C11: a request whose sanitized path is README.md never reads or writes the
\* origin's cache, never fetches from upstream and never counts a cache hit;
\* it is answered from the local file (200, 206 or 416 on its bytes), and with
\* 404 exactly when the file cannot be read.
C11_ReadmeBypassesCache ==
    \A c \in Clients :
        (req[c].pc # "idle" /\ sanitize_path(req[c].path) = README) =>
            /\ req[c].eff.gets = 0
            /\ req[c].eff.puts = 0
            /\ req[c].eff.fetches = 0
            /\ req[c].eff.cache_hits = 0
            /\ ~req[c].eff.cache_changed
            /\ req[c].pc \in {"count", "sanitize", "readme", "range", "bytes", "respond"}
            /\ req[c].pc = "respond" =>
                  /\ req[c].resp.status \in {200, 206, 416, 404}
                  /\ (req[c].resp.status = 404) <=> ~req[c].readme
                  /\ req[c].resp.status \in {200, 206} =>
                        \E i \in 1..Len(req[c].body) :
                            SubSeq(req[c].body, i, Len(req[c].body)) = req[c].resp.body

\* a README request on origin A is answered 200 from the file while that
\* origin's cache holds an entry
C11_Witness ==
    /\ req[1].pc = "respond"
    /\ req[1].path = PATH_README
    /\ req[1].origin = "A"
    /\ req[1].resp.status = 200
    /\ req[1].resp.body = Body(1)
    /\ Len(cache["A"]) = 1

\* the Content-Type that handle_readme sets
MARKDOWN == "text/markdown; charset=UTF-8"

\* C12: every successful README response, the full 200 and the 206 for a
\* parseable in-bounds Range header alike, carries
\* Content-Type: text/markdown; charset=UTF-8.
C12_ReadmeContentType ==
    (fn_arg.kind = "range" /\ fn_arg.readme /\ fn_out.kind = "Resp"
        /\ fn_out.resp.status \in {200, 206})
        => HeaderOf(fn_out.resp, "content_type") = MARKDOWN

\* the README responses that do carry the Content-Type: the full 200
C12_ReadmeFullContentType ==
    (fn_arg.kind = "range" /\ fn_arg.readme /\ fn_out.kind = "Resp")
        => /\ fn_out.resp.status = 200 => HeaderOf(fn_out.resp, "content_type") = MARKDOWN
           /\ fn_out.resp.status = 206 => "content_type" \notin DOMAIN fn_out.resp.headers

\* C13: every 200 and every 206 of the proxy pipeline, the responses to
\* README requests included, carries an X-Cache header that is HIT or MISS;
\* Content-Range appears on 206 responses only.
C13_XCacheOnSuccess ==
    (fn_arg.kind = "range" /\ fn_out.kind = "Resp") =>
        /\ fn_out.resp.status \in {200, 206}
              => HeaderOf(fn_out.resp, "x_cache") \in {"HIT", "MISS"}
        /\ "content_range" \in DOMAIN fn_out.resp.headers
              => fn_out.resp.status = 206

\* what does hold: X-Cache on every 200 and 206 but the README's full 200,
\* Content-Range on exactly the 206 responses
C13_XCacheButReadmeFull ==
    (fn_arg.kind = "range" /\ fn_out.kind = "Resp") =>
        /\ (fn_out.resp.status = 206 \/ (fn_out.resp.status = 200 /\ ~fn_arg.readme))
              => HeaderOf(fn_out.resp, "x_cache") = XCache(fn_arg.is_cache_hit)
        /\ (fn_out.resp.status = 200 /\ fn_arg.readme)
              => "x_cache" \notin DOMAIN fn_out.resp.headers
        /\ "content_range" \in DOMAIN fn_out.resp.headers
              <=> fn_out.resp.status = 206

\* the request of client c follows a delivered exchange on the same origin
\* whose raw path differs from its own in the first segment only
SharesRemainder(c) ==
    /\ prev.ended = "delivered"
    /\ prev.origin = req[c].origin
    /\ prev.path # req[c].path
    /\ AfterFirstSegment(prev.path) = AfterFirstSegment(req[c].path)

\* C14: the cache key of a request is the part of its raw path after the
\* first segment, whatever that segment is; a request whose raw path differs
\* from that of the preceding successful fetch in the first segment only is
\* served as a cache HIT of the object fetched then.
C14_FirstSegmentIgnored ==
    \A c \in {1} :
        /\ req[c].key # <<>> => req[c].key = AfterFirstSegment(req[c].path)
        /\ (req[c].pc = "respond" /\ SharesRemainder(c) /\ FetchedOk(prev.eff)) =>
              /\ req[c].is_cache_hit
              /\ req[c].eff.fetches = 0
              /\ req[c].eff.cache_hits = 1
              /\ (~prev.has_range /\ ~req[c].has_range)
                    => req[c].resp = FullResponse(prev.resp.body, TRUE)

\* u/a is answered as a HIT with the two bytes fetched for t/a
C14_Witness ==
    /\ req[1].pc = "respond"
    /\ req[1].path = PATH_A2
    /\ prev.path = PATH_A
    /\ prev.ended = "delivered"
    /\ HeaderOf(prev.resp, "x_cache") = "MISS"
    /\ req[1].resp = FullResponse(Body(2), TRUE)

\* client c is suspended on its upstream call: the request is sent, or its
\* body is being read
FetchInFlight(c) == req[c].pc \in {"send", "recv"}

C16_AbandonLeavesNoTrace ==
    prev.ended = "abandoned" =>
        /\ prev.eff.cache_changed =>
              /\ prev.eff.puts = 1
              /\ \E i \in 1..Len(cache[prev.origin]) :
                    /\ cache[prev.origin][i].key = sanitize_path(prev.path)
                    /\ cache[prev.origin][i].val \in Bodies
        /\ prev.eff.bytes_served = 0

\* the cache half of C16, which holds: an abandoned request has changed the
\* cache only by its one put of a complete body
C16_AbandonCacheAllOrNothing ==
    prev.ended = "abandoned" =>
        /\ prev.eff.puts <= 1
        /\ prev.eff.cache_changed =>
              /\ prev.eff.puts + prev.eff.gets >= 1
              /\ \A i \in 1..Len(cache[prev.origin]) : cache[prev.origin][i].val \in Bodies

\* the status codes of the dispatcher
StatusCodes == {200, 206, 400, 404, 416, 502}

\* C17: when every upstream call and file read returns and locks are granted
\* fairly, every request that entered the handler eventually has its one
\* response, with a status among 200, 206, 400, 404, 416 and 502.
C17_EveryRequestAnswered ==
    \A c \in Clients :
        (req[c].pc = "count")
            ~> (req[c].pc = "respond" /\ req[c].resp.status \in StatusCodes)

\* what does hold: every request that entered the handler eventually has such
\* a response or has ended without one (the handler panicked)
C17_AnsweredOrEnded ==
    \A c \in Clients :
        (req[c].pc = "count")
            ~> \/ req[c].pc = "respond" /\ req[c].resp.status \in StatusCodes
               \/ req[c].pc = "idle"

\* C18: every request, whatever its outcome, increments its origin's
\* request_count exactly once, and does so before its path is sanitized and
\* before any cache lookup, cache_hits update, upstream fetch or bytes_served
\* update of its own.
C18_CountedOnceFirst ==
    \A c \in Clients :
        /\ req[c].pc \in {"idle", "count"} => req[c].eff = ZeroEff
        /\ req[c].pc \notin {"idle", "count"} => req[c].eff.request_count = 1
        /\ req[c].pc = "sanitize" =>
              req[c].eff = [ZeroEff EXCEPT !.request_count = 1]
        /\ req[c].pc = "respond" => req[c].resp.status \in StatusCodes

\* a request with a traversal path stands at its 400 and has been counted
C18_Witness ==
    /\ req[1].pc = "respond"
    /\ req[1].path = PATH_TRAVERSAL
    /\ req[1].resp.status = 400
    /\ req[1].eff.request_count = 1
    /\ Counter(stats, req[1].origin, "request_count") >= 1

\* the handler of client c is past its cache work: it holds a body and goes
\* on to the response, or has its response
HasBody(c) ==
    req[c].pc \in {"range", "bytes"}
        \/ (req[c].pc = "respond" /\ req[c].resp.status \in {200, 206, 416})

\* C19: a non-README request has incremented cache_hits exactly once if and
\* only if its lookup returned the object (the body it serves was not
\* fetched), and the X-Cache of its 200 or 206 is HIT in exactly that case
\* and MISS otherwise; a README request never increments cache_hits.
C19_HitCountedIffServedFromCache ==
    \A c \in Clients :
        /\ (HasBody(c) /\ ~req[c].readme) =>
              /\ req[c].eff.cache_hits = (IF req[c].is_cache_hit THEN 1 ELSE 0)
              /\ req[c].is_cache_hit <=> (req[c].eff.fetches = 0)
              /\ req[c].eff.gets = 1
              /\ (req[c].pc = "respond" /\ req[c].resp.status \in {200, 206}) =>
                    HeaderOf(req[c].resp, "x_cache")
                        = (IF req[c].eff.cache_hits = 1 THEN "HIT" ELSE "MISS")
        /\ req[c].eff.cache_hits <= 1
        /\ req[c].eff.fetch_failed => req[c].eff.cache_hits = 0
        /\ sanitize_path(req[c].path) = README => req[c].eff.cache_hits = 0

\* both clients stand at a 200 for the same object, one fetched it (MISS, no
\* hit counted), the other took it from the cache (HIT, one hit counted)
C19_Witness ==
    /\ req[1].pc = "respond" /\ req[2].pc = "respond"
    /\ req[1].origin = req[2].origin /\ req[1].key = req[2].key
    /\ HeaderOf(req[1].resp, "x_cache") = "MISS" /\ req[1].eff.cache_hits = 0
    /\ HeaderOf(req[2].resp, "x_cache") = "HIT" /\ req[2].eff.cache_hits = 1

\* C20: each response has increased its origin's bytes_served exactly once,
\* by exactly its number of payload bytes: the full body length on a 200, the
\* slice length (not the full length) on a 206, nothing on 400, 404, 416 and
\* 502; before its response a request has added nothing.
C20_BytesServedIsPayload ==
    \A c \in {1} :
        /\ req[c].pc # "respond" => req[c].eff.bytes_served = 0
        /\ req[c].pc = "respond" =>
              /\ req[c].eff.bytes_served = Len(req[c].resp.body)
              /\ req[c].resp.status = 200 => req[c].eff.bytes_served = Len(req[c].body)
              /\ req[c].resp.status = 206 =>
                    LET cr == HeaderOf(req[c].resp, "content_range")
                    IN  /\ req[c].eff.bytes_served = cr[2] - cr[1] + 1
                        /\ cr[3] = Len(req[c].body)
              /\ req[c].resp.status \in {400, 404, 416, 502} =>
                    req[c].eff.bytes_served = 0

\* the 206 for the middle byte of a three-byte body has added 1, not 3
C20_Witness ==
    /\ req[1].pc = "respond"
    /\ req[1].resp.status = 206
    /\ req[1].body = Body(3)
    /\ req[1].resp.body = <<32>>
    /\ req[1].eff.bytes_served = 1
    /\ Counter(stats, req[1].origin, "bytes_served") >= 1

\* the positions in cache list c that hold key k
LruPositions(c, k) == {i \in 1..Len(c) : c[i].key = k}

\* client c commits its write in this step
Commits(c) == req[c].pc = "put" /\ req'[c].pc = "range"

\* C21: there is no per-key fetch deduplication. A request that missed has
\* made its own upstream fetch and, once it holds the body, its own cache
\* write, whatever other requests are doing on the same key, and its 200 or
\* 206 says X-Cache: MISS; a key never has more than one entry; a write
\* leaves the key's entry with the writer's bytes, and an entry's bytes change
\* by no step but a write to its key, so the entry holds the bytes of the
\* write that committed last.
C21_NoFetchDeduplication ==
    /\ [](\A c \in Clients :
            /\ (HasBody(c) /\ ~req[c].readme /\ ~req[c].is_cache_hit) =>
                  /\ req[c].eff.fetches = 1
                  /\ req[c].eff.puts = 1
                  /\ (req[c].pc = "respond" /\ req[c].resp.status \in {200, 206})
                        => HeaderOf(req[c].resp, "x_cache") = "MISS"
            /\ \A o \in Origins :
                  \A i \in 1..Len(cache[o]) :
                      LruPositions(cache[o], cache[o][i].key) = {i})
    /\ [][\A o \in Origins :
            /\ \A c \in Clients :
                  (Commits(c) /\ req[c].origin = o) =>
                      LruValue(cache'[o], req[c].key) = req[c].body
            /\ \A k \in LruKeys(cache[o]) \cap LruKeys(cache'[o]) :
                  LruValue(cache'[o], k) # LruValue(cache[o], k) =>
                      \E c \in Clients :
                          Commits(c) /\ req[c].origin = o /\ req[c].key = k]_vars

\* both clients missed on the same key and fetched different bodies; both
\* stand at a 200 with X-Cache: MISS, and the one entry of the key holds the
\* bytes of client 2, whose write came second
C21_Witness ==
    /\ req[1].pc = "respond" /\ req[2].pc = "respond"
    /\ req[1].origin = "A" /\ req[2].origin = "A"
    /\ req[1].key = req[2].key
    /\ req[1].resp = FullResponse(Body(0), FALSE)
    /\ req[2].resp = FullResponse(Body(2), FALSE)
    /\ cache["A"] = <<[key |-> req[1].key, val |-> Body(2)]>>

\* the origin that the request of client c is addressed to in this step
\* (the step in which it arrives included)
StepOrigin(c) == IF req[c].pc = "idle" THEN req'[c].origin ELSE req[c].origin

\* C22: origins are isolated. A step of a request to origin A leaves the
\* cache (contents and order) and the stats entry of every other origin as
\* they are; an origin has its stats entry from its first counted request on
\* and not before.
C22_OriginsIsolated ==
    /\ [][\A c \in Clients :
            req'[c] # req[c] =>
                \A o \in Origins \ {StepOrigin(c)} :
                    /\ cache'[o] = cache[o]
                    /\ touches'[o] = touches[o]
                    /\ (o \in DOMAIN stats') <=> (o \in DOMAIN stats)
                    /\ o \in DOMAIN stats => stats'[o] = stats[o]]_vars
    /\ [](/\ DOMAIN stats \subseteq Origins
          /\ \A o \in DOMAIN stats : stats[o].request_count >= 1
          /\ \A c \in Clients :
                req[c].pc \notin {"idle", "count"} => req[c].origin \in DOMAIN stats)

\* origin A has a cached object and counted a hit on it; origin B has served
\* a request of its own and shows only that one
C22_Witness ==
    /\ Len(cache["A"]) = 1
    /\ Len(cache["B"]) = 0
    /\ DOMAIN stats = {"A", "B"}
    /\ stats["A"] = [bytes_served |-> 4, request_count |-> 2, cache_hits |-> 1]
    /\ stats["B"] = [bytes_served |-> 0, request_count |-> 1, cache_hits |-> 0]

\* the "/"-separated pieces of a key
KeySegments(key) == Split(key, "/")

\* C23: every key present in any origin's cache is a non-empty string of
\* plain segments joined by single "/": no ".." segment, no "." segment, no
\* empty segment, no leading "/", and never the literal README.md.
C23_CacheKeysPlain ==
    \A o \in Origins :
        \A i \in 1..Len(cache[o]) :
            LET key == cache[o][i].key
            IN  /\ Len(key) > 0
                /\ key[1] # "/"
                /\ \A k \in 1..Len(KeySegments(key)) :
                       KeySegments(key)[k] \notin {<<>>, DOT, DOTDOT}
                /\ key # README

\* requests for "/.a" and for "a/a/" have left the keys ".a" and "a"
C23_Witness ==
    /\ LruKeys(cache["A"]) = {<<".", "a">>, <<"a">>}
    /\ touches["A"] = <<<<".", "a">>, <<"a">>>>

\* C24: every Range header of the form bytes=<start>-[<end>] with numbers
\* that fit the unsigned word yields 206 or 416 and nothing else; at the
\* boundaries, an <end> equal to the largest word value and an open-ended
\* range on a zero-length body, it yields 416: never a crash, never a 200.
C24_ParsedRangeGives206Or416 ==
    RangeAnswered =>
        LET L == Len(fn_arg.body)
        IN  /\ (\E f \in ClosedForms \cup OpenForms : f[1] = fn_arg.range)
                  => (fn_out.kind = "Resp" /\ fn_out.resp.status \in {206, 416})
            /\ (\E s \in RangeNumbers : fn_arg.range = ClosedRange(s, UsizeMax))
                  => (fn_out.kind = "Resp" /\ fn_out.resp.status = 416)
            /\ (L = 0 /\ fn_arg.range = OpenRange(0))
                  => (fn_out.kind = "Resp" /\ fn_out.resp.status = 416)

\* what does hold: such a header yields 206, 416 or the panic, never a 200,
\* and away from the two boundaries never the panic
C24_ParsedRangeNever200 ==
    RangeAnswered =>
        /\ (\E f \in ClosedForms \cup OpenForms : f[1] = fn_arg.range)
              => \/ fn_out.kind = "Panic"
                 \/ fn_out.kind = "Resp" /\ fn_out.resp.status \in {206, 416}
        /\ \A f \in ClosedForms :
              (f[1] = fn_arg.range /\ f[3] < UsizeMax /\ Len(fn_arg.body) > 0)
                  => fn_out.kind = "Resp"
        /\ \A f \in OpenForms :
              (f[1] = fn_arg.range /\ Len(fn_arg.body) > 0) => fn_out.kind = "Resp"

\* the exchange that ended last fetched the object of client c's request
FollowsFetch(c) ==
    /\ prev.ended \in {"delivered", "abandoned", "panicked"}
    /\ prev.origin = req[c].origin
    /\ sanitize_path(prev.path) = req[c].key
    /\ prev.eff.puts = 1

\* C25: a request that missed and fetched has stored the entire upstream body
\* under its key, whatever its Range header and whether it ends in 200, 206
\* or 416; no cache entry is a range slice; the next request for the key,
\* with whatever range, is a HIT that works on the full body.
C25_CacheHoldsFullBody ==
    /\ \A o \in Origins : \A i \in 1..Len(cache[o]) : cache[o][i].val \in Bodies
    /\ \A c \in {1} :
          /\ (req[c].eff.puts = 1 /\ req[c].pc \in {"range", "bytes", "respond"}) =>
                /\ req[c].body \in Bodies
                /\ LruValue(cache[req[c].origin], req[c].key) = req[c].body
                /\ req[c].pc = "respond" => req[c].resp.status \in {200, 206, 416}
          /\ (req[c].pc = "respond" /\ FollowsFetch(c)) =>
                /\ req[c].is_cache_hit
                /\ req[c].eff.fetches = 0
                /\ req[c].body \in Bodies
                /\ req[c].body = LruValue(cache[req[c].origin], req[c].key)
                /\ prev.resp.status = 200 => req[c].body = prev.resp.body
                /\ prev.resp.status = 206 =>
                      LET cr == HeaderOf(prev.resp, "content_range")
                      IN  /\ Len(req[c].body) = cr[3]
                          /\ SubSeq(req[c].body, cr[1] + 1, cr[2] + 1) = prev.resp.body

\* after a 206 for the middle byte of a three-byte object, an open-ended
\* range request for the same key is a HIT answered with all three bytes
C25_Witness ==
    /\ req[1].pc = "respond"
    /\ FollowsFetch(1)
    /\ prev.resp.status = 206
    /\ prev.resp.body = <<32>>
    /\ req[1].range = RANGE_0_OPEN
    /\ req[1].resp.status = 206
    /\ req[1].resp.body = Body(3)
    /\ HeaderOf(req[1].resp, "x_cache") = "HIT"

\* after a 416 (start after end) on a fetched three-byte object, the object
\* is cached whole and the next request gets its middle byte as a HIT
C25_WitnessAfter416 ==
    /\ req[1].pc = "respond"
    /\ FollowsFetch(1)
    /\ prev.resp.status = 416
    /\ req[1].range = RANGE_1_1
    /\ req[1].resp.body = <<32>>
    /\ HeaderOf(req[1].resp, "x_cache") = "HIT"

\* client c works under an origin's cache lock in this step: it makes a
\* cache get or a cache put
UsesCacheLock(c) ==
    req'[c].eff.gets > req[c].eff.gets \/ req'[c].eff.puts > req[c].eff.puts

\* client c works under the stats lock in this step: it changes a counter
UsesStatsLock(c) ==
    \/ req'[c].eff.request_count > req[c].eff.request_count
    \/ req'[c].eff.cache_hits > req[c].eff.cache_hits
    \/ req[c].pc = "bytes" /\ req'[c].pc = "respond"

\* client c returns from the upstream call or from the README file read in
\* this step
ReturnsFromIO(c) == req[c].pc \in {"send", "recv", "readme"} /\ req'[c] # req[c]

\* the pending step of client c that takes a lock (the stats lock to count
\* the request, a hit or the bytes; the cache lock to get or to put) can be
\* taken now
CanProceed(c) ==
    /\ req[c].pc = "count" => ENABLED IncRequestCount(c)
    /\ req[c].pc = "lookup" => ENABLED CacheLookup(c)
    /\ req[c].pc = "hit" => ENABLED IncCacheHits(c)
    /\ req[c].pc = "put" => ENABLED CachePut(c)
    /\ req[c].pc = "bytes" => ENABLED AddBytesServed(c)

====
